---------------------------- MODULE Spec2Model ----------------------------
(***************************************************************************)
(* Model of demo.mjs: a relying party for Steam's OpenID 2.0 login.        *)
(*                                                                         *)
(* A JavaScript string is a sequence of one-character strings, so that     *)
(* lastIndexOf, substring, startsWith and split are computed as the        *)
(* program computes them.  Indices handed to the js_ operators are the     *)
(* program's 0-based indices.                                              *)
(***************************************************************************)
EXTENDS Integers, Sequences, FiniteSets, TLC

(***************************************************************************)
(* Bounds of the model.                                                    *)
(***************************************************************************)
NumRequests == 2

Req == 1..NumRequests

(***************************************************************************)
(* String literals of the program.                                         *)
(***************************************************************************)
LF == "\n"

S_root == <<"/">>

S_auth_steam == <<"/","a","u","t","h","/","s","t","e","a","m">>

S_favicon == <<"/","f","a","v","i","c","o","n",".","i","c","o">>

S_ns == <<"n","s",":">>

S_is_valid == <<"i","s","_","v","a","l","i","d",":">>

S_true == <<"t","r","u","e">>

S_false == <<"f","a","l","s","e">>

K_mode == <<"o","p","e","n","i","d",".","m","o","d","e">>

K_claimed_id == <<"o","p","e","n","i","d",".","c","l","a","i","m","e","d","_","i","d">>

V_check_authentication == <<"c","h","e","c","k","_","a","u","t","h","e","n","t","i","c","a","t","i","o","n">>

K_proto == <<"_","_","p","r","o","t","o","_","_">>

\* The value null (URLSearchParams.get of an absent name): no string equals it.
NULL == <<"null">>

\* The length a Steam ID must have.
SteamIdLength == 17

(***************************************************************************)
(* String.prototype operations.                                            *)
(***************************************************************************)
RECURSIVE js_lastIndexOfFrom(_, _, _)
js_lastIndexOfFrom(s, c, n) ==
    IF n = 0 THEN -1
    ELSE IF s[n] = c THEN n - 1
    ELSE js_lastIndexOfFrom(s, c, n - 1)

js_lastIndexOf(s, c) == js_lastIndexOfFrom(s, c, Len(s))

RECURSIVE js_indexOfFrom(_, _, _)
js_indexOfFrom(s, c, n) ==
    IF n > Len(s) THEN -1
    ELSE IF s[n] = c THEN n - 1
    ELSE js_indexOfFrom(s, c, n + 1)

js_indexOf(s, c) == js_indexOfFrom(s, c, 1)

js_substring(s, from, to) == SubSeq(s, from + 1, to)

js_startsWith(s, prefix) ==
    /\ Len(s) >= Len(prefix)
    /\ SubSeq(s, 1, Len(prefix)) = prefix

RECURSIVE js_split(_, _)
js_split(s, c) ==
    LET idx == js_indexOf(s, c)
    IN  IF idx = -1 THEN <<s>>
        ELSE <<js_substring(s, 0, idx)>> \o js_split(js_substring(s, idx + 1, Len(s)), c)

\* Array.prototype.filter(n => !!n) over strings: the empty string is falsy.
js_filterTruthy(a) == SelectSeq(a, LAMBDA n : n # <<>>)

(***************************************************************************)
(* parse_oid_check_authentication.  A call either throws or returns        *)
(* {ns, is_valid}.  The loop state is the object `result` under            *)
(* construction: which properties it has, and their values.                *)
(***************************************************************************)
Thrown == [threw |-> TRUE]

EmptyResult == [has_ns |-> FALSE, ns |-> <<>>, has_is_valid |-> FALSE, is_valid |-> FALSE]

\* A loop body that splits an entry at every ":" and takes the second piece as value.
parse_entry_split_at_every_colon(result, entry) ==
    LET pieces == js_split(entry, ":")
    IN  IF Len(pieces) < 2 THEN Thrown
        ELSE IF pieces[1] = <<"n","s">>
        THEN [result EXCEPT !.has_ns = TRUE, !.ns = pieces[2]]
        ELSE IF pieces[1] = <<"i","s","_","v","a","l","i","d">>
        THEN IF pieces[2] = S_true THEN [result EXCEPT !.has_is_valid = TRUE, !.is_valid = TRUE]
             ELSE IF pieces[2] = S_false
             THEN [result EXCEPT !.has_is_valid = TRUE, !.is_valid = FALSE]
             ELSE Thrown
        ELSE Thrown

\* A loop body that keeps a property once it is set: the first occurrence of a key wins.
parse_entry_first_occurrence_wins(result, entry) ==
    IF js_startsWith(entry, S_ns)
    THEN IF result.has_ns THEN result
         ELSE [result EXCEPT !.has_ns = TRUE,
                             !.ns = js_substring(entry, Len(S_ns), Len(entry))]
    ELSE IF js_startsWith(entry, S_is_valid)
    THEN LET v == js_substring(entry, Len(S_is_valid), Len(entry))
         IN  IF v \notin {S_true, S_false} THEN Thrown
             ELSE IF result.has_is_valid THEN result
             ELSE [result EXCEPT !.has_is_valid = TRUE, !.is_valid = (v = S_true)]
    ELSE Thrown

\* One iteration of the for loop over a result that has not thrown.
parse_entry(result, entry) ==
    IF js_startsWith(entry, S_ns)
    THEN [result EXCEPT !.has_ns = TRUE,
                        !.ns = js_substring(entry, Len(S_ns), Len(entry))]
    ELSE IF js_startsWith(entry, S_is_valid)
    THEN LET v == js_substring(entry, Len(S_is_valid), Len(entry))
         IN  IF v = S_true THEN [result EXCEPT !.has_is_valid = TRUE, !.is_valid = TRUE]
             ELSE IF v = S_false THEN [result EXCEPT !.has_is_valid = TRUE, !.is_valid = FALSE]
             ELSE Thrown
    ELSE Thrown

RECURSIVE parse_entries(_, _)
parse_entries(result, entries) ==
    IF entries = <<>> THEN result
    ELSE LET next == parse_entry(result, Head(entries))
         IN  IF next = Thrown THEN Thrown
             ELSE parse_entries(next, Tail(entries))

\* A final test with || for &&: one of the two keys is enough.
parse_oid_check_authentication_either_key(response) ==
    LET entries == js_filterTruthy(js_split(response, LF))
        result == parse_entries(EmptyResult, entries)
    IN  IF result = Thrown THEN Thrown
        ELSE IF result.has_ns \/ result.has_is_valid
        THEN [threw |-> FALSE, ns |-> result.ns, is_valid |-> result.is_valid]
        ELSE Thrown

parse_oid_check_authentication(response) ==
    LET entries == js_filterTruthy(js_split(response, LF))
        result == parse_entries(EmptyResult, entries)
    IN  IF result = Thrown THEN Thrown
        ELSE IF result.has_ns /\ result.has_is_valid
        THEN [threw |-> FALSE, ns |-> result.ns, is_valid |-> result.is_valid]
        ELSE Thrown

(***************************************************************************)
(* parse_oid_claimed_id_steam.  Calling lastIndexOf on null throws a       *)
(* TypeError, the assertion throws an AssertionError, the length check an  *)
(* Error: all three leave the function by an exception.                    *)
(***************************************************************************)
\* An assertion of idx >= 0 for idx > 0.
parse_oid_claimed_id_steam_idx_from_0(claimed_id) ==
    IF claimed_id = NULL THEN Thrown
    ELSE LET idx == js_lastIndexOf(claimed_id, "/")
             steam_id == js_substring(claimed_id, idx + 1, Len(claimed_id))
         IN  IF ~(idx >= 0) THEN Thrown
             ELSE IF Len(steam_id) # SteamIdLength THEN Thrown
             ELSE [threw |-> FALSE, value |-> steam_id]

parse_oid_claimed_id_steam(claimed_id) ==
    IF claimed_id = NULL THEN Thrown
    ELSE LET idx == js_lastIndexOf(claimed_id, "/")
             steam_id == js_substring(claimed_id, idx + 1, Len(claimed_id))
         IN  IF ~(idx > 0) THEN Thrown
             ELSE IF Len(steam_id) # SteamIdLength THEN Thrown
             ELSE [threw |-> FALSE, value |-> steam_id]

(***************************************************************************)
(* A JavaScript object with string keys, as used for config.params and     *)
(* params_out: the sequence of its own properties <<key, value>> in        *)
(* creation order.  Object.entries lists the array-index keys first, in    *)
(* ascending numeric order, then the other keys in creation order.         *)
(***************************************************************************)
Digits == {"0","1","2","3","4","5","6","7","8","9"}

DigitValue(c) ==
    CASE c = "0" -> 0 [] c = "1" -> 1 [] c = "2" -> 2 [] c = "3" -> 3 [] c = "4" -> 4
      [] c = "5" -> 5 [] c = "6" -> 6 [] c = "7" -> 7 [] c = "8" -> 8 [] c = "9" -> 9

RECURSIVE js_toNumber(_)
js_toNumber(k) ==
    IF k = <<>> THEN 0
    ELSE 10 * js_toNumber(SubSeq(k, 1, Len(k) - 1)) + DigitValue(k[Len(k)])

\* A canonical numeric string below 2^32 - 1 (every such key of at most 9 digits is one).
js_isArrayIndex(k) ==
    /\ Len(k) \in 1..9
    /\ \A n \in 1..Len(k) : k[n] \in Digits
    /\ (k[1] = "0" => Len(k) = 1)

obj_has(obj, k) == \E n \in 1..Len(obj) : obj[n][1] = k

\* obj[k] = v.  Assigning a string to __proto__ runs the inherited setter, which
\* ignores a value that is neither an object nor null: no property is created.
obj_set(obj, k, v) ==
    IF k = K_proto THEN obj
    ELSE IF obj_has(obj, k)
    THEN [n \in 1..Len(obj) |-> IF obj[n][1] = k THEN <<k, v>> ELSE obj[n]]
    ELSE Append(obj, <<k, v>>)

RECURSIVE obj_literal(_, _)
obj_literal(obj, props) ==
    IF props = <<>> THEN obj
    ELSE obj_literal(obj_set(obj, Head(props)[1], Head(props)[2]), Tail(props))

RECURSIVE sort_index_keys(_)
sort_index_keys(ps) ==
    IF ps = <<>> THEN <<>>
    ELSE LET m == CHOOSE a \in 1..Len(ps) :
                    \A b \in 1..Len(ps) : js_toNumber(ps[a][1]) <= js_toNumber(ps[b][1])
         IN  <<ps[m]>> \o sort_index_keys(SubSeq(ps, 1, m - 1) \o SubSeq(ps, m + 1, Len(ps)))

Object_entries(obj) ==
    sort_index_keys(SelectSeq(obj, LAMBDA p : js_isArrayIndex(p[1])))
        \o SelectSeq(obj, LAMBDA p : ~js_isArrayIndex(p[1]))

(***************************************************************************)
(* URL and URLSearchParams.  A URL is its href without the query, and the  *)
(* list of its query pairs.  The strings of the model hold no '%', '+' or  *)
(* '#', so parsing a query decodes nothing.                                *)
(***************************************************************************)
\* One "name=value" (or bare "name") of a query string.
parse_pair(piece) ==
    LET eq == js_indexOf(piece, "=")
    IN  IF eq = -1 THEN <<piece, <<>>>>
        ELSE <<js_substring(piece, 0, eq), js_substring(piece, eq + 1, Len(piece))>>

RECURSIVE parse_pairs(_)
parse_pairs(pieces) ==
    IF pieces = <<>> THEN <<>>
    ELSE <<parse_pair(Head(pieces))>> \o parse_pairs(Tail(pieces))

\* new URL(url, "http://localhost").searchParams for a url that starts with "/".
URL_searchParams(url) ==
    LET q == js_indexOf(url, "?")
    IN  IF q = -1 THEN <<>>
        ELSE parse_pairs(js_filterTruthy(js_split(js_substring(url, q + 1, Len(url)), "&")))

\* new URL(url, "http://localhost").pathname for a url that starts with "/".
URL_pathname(url) ==
    LET q == js_indexOf(url, "?")
    IN  IF q = -1 THEN url ELSE js_substring(url, 0, q)

\* URLSearchParams.get: the first value of the name, or null.
searchParams_get(params, name) ==
    IF \E n \in 1..Len(params) : params[n][1] = name
    THEN params[CHOOSE n \in 1..Len(params) :
                    /\ params[n][1] = name
                    /\ \A m \in 1..(n - 1) : params[m][1] # name][2]
    ELSE NULL

RECURSIVE searchParams_appendAll(_, _)
searchParams_appendAll(search, entries) ==
    IF entries = <<>> THEN search
    ELSE searchParams_appendAll(Append(search, Head(entries)), Tail(entries))

\* The application/x-www-form-urlencoded serialisation of one character.
urlencode_char(c) ==
    CASE c = ":" -> <<"%","3","A">>
      [] c = "/" -> <<"%","2","F">>
      [] c = "=" -> <<"%","3","D">>
      [] c = "&" -> <<"%","2","6">>
      [] c = "?" -> <<"%","3","F">>
      [] c = " " -> <<"+">>
      [] OTHER -> <<c>>

RECURSIVE urlencode(_)
urlencode(s) ==
    IF s = <<>> THEN <<>> ELSE urlencode_char(Head(s)) \o urlencode(Tail(s))

RECURSIVE searchParams_toString(_)
searchParams_toString(search) ==
    IF search = <<>> THEN <<>>
    ELSE urlencode(Head(search)[1]) \o <<"=">> \o urlencode(Head(search)[2])
            \o (IF Len(search) > 1 THEN <<"&">> ELSE <<>>)
            \o searchParams_toString(Tail(search))

URL_toString(url) ==
    IF url.search = <<>> THEN url.href
    ELSE url.href \o <<"?">> \o searchParams_toString(url.search)

(***************************************************************************)
(* The configuration built by main.                                        *)
(***************************************************************************)
S_provider_url == <<"h","t","t","p","s",":","/","/","s","t","e","a","m","c","o","m","m","u","n","i","t","y",".","c","o","m","/","o","p","e","n","i","d","/","l","o","g","i","n">>

K_ns == <<"o","p","e","n","i","d",".","n","s">>

K_identity == <<"o","p","e","n","i","d",".","i","d","e","n","t","i","t","y">>

K_return_to == <<"o","p","e","n","i","d",".","r","e","t","u","r","n","_","t","o">>

K_realm == <<"o","p","e","n","i","d",".","r","e","a","l","m">>

V_checkid_setup == <<"c","h","e","c","k","i","d","_","s","e","t","u","p">>

V_ns == <<"h","t","t","p",":","/","/","s","p","e","c","s",".","o","p","e","n","i","d",".","n","e","t","/","a","u","t","h","/","2",".","0">>

V_identifier_select == <<"h","t","t","p",":","/","/","s","p","e","c","s",".","o","p","e","n","i","d",".","n","e","t","/","a","u","t","h","/","2",".","0","/","i","d","e","n","t","i","f","i","e","r","_","s","e","l","e","c","t">>

V_return_to == <<"h","t","t","p",":","/","/","l","o","c","a","l","h","o","s","t",":","8","0","8","0","/","a","u","t","h","/","s","t","e","a","m">>

V_realm == <<"h","t","t","p",":","/","/","l","o","c","a","l","h","o","s","t",":","8","0","8","0">>

\* The parameters kept as the list of pairs written, "openid.mode" twice.
config_params_as_written ==
    << <<K_mode, V_checkid_setup>>,
       <<K_mode, V_checkid_setup>>,
       <<K_ns, V_ns>>,
       <<K_identity, V_identifier_select>>,
       <<K_claimed_id, V_identifier_select>>,
       <<K_return_to, V_return_to>>,
       <<K_realm, V_realm>> >>

\* The object literal of config.steam_openid.params, "openid.mode" written twice.
config_params ==
    obj_literal(<<>>, << <<K_mode, V_checkid_setup>>,
                         <<K_mode, V_checkid_setup>>,
                         <<K_ns, V_ns>>,
                         <<K_identity, V_identifier_select>>,
                         <<K_claimed_id, V_identifier_select>>,
                         <<K_return_to, V_return_to>>,
                         <<K_realm, V_realm>> >>)

config_init ==
    [steam_openid |-> [url |-> [href |-> S_provider_url, search |-> <<>>],
                       params |-> config_params]]

(***************************************************************************)
(* The inputs: the requests clients send and the answers the provider      *)
(* gives.                                                                  *)
(***************************************************************************)
K_sig == <<"o","p","e","n","i","d",".","s","i","g">>

V_id_res == <<"i","d","_","r","e","s">>

S_other == <<"/","a","n","y","t","h","i","n","g","-","e","l","s","e">>

\* The part of a claimed identity before its last "/", with a short host.
S_id_prefix == <<"h","t","t","p","s",":","/","/","s","/","i","d">>

Repeat(c, n) == [k \in 1..n |-> c]

Zeros(n) == Repeat("0", n)

\* Claimed identities: well-formed ones, and one for every way extraction fails.
ClaimedOk == S_id_prefix \o <<"/">> \o Zeros(SteamIdLength)

ClaimedLetters == <<"p","/">> \o Repeat("x", SteamIdLength)

ClaimedNoSlash == Zeros(SteamIdLength)

ClaimedSlashFirst == <<"/">> \o Zeros(SteamIdLength)

ClaimedShort == S_id_prefix \o <<"/">> \o Zeros(SteamIdLength - 1)

ClaimedLong == S_id_prefix \o <<"/">> \o Zeros(SteamIdLength + 1)

Pair(k, v) == k \o <<"=">> \o v

RECURSIVE Query(_)
Query(pairs) ==
    IF pairs = <<>> THEN <<>>
    ELSE Head(pairs) \o (IF Len(pairs) > 1 THEN <<"&">> ELSE <<>>) \o Query(Tail(pairs))

Callback(pairs) == S_auth_steam \o <<"?">> \o Query(pairs)

UrlPlain ==
    Callback(<<Pair(K_mode, V_id_res), Pair(K_claimed_id, ClaimedOk), Pair(K_sig, <<"s">>)>>)

\* A repeated key, under a path that only starts with /auth/steam.
UrlRepeated ==
    S_auth_steam \o <<"r","o","l","l","e","r","?">>
        \o Query(<<Pair(K_claimed_id, ClaimedLetters), Pair(<<"a">>, <<"1">>), Pair(<<"a">>, <<"2">>)>>)

\* Two openid.mode fields, an array-index key and __proto__.
UrlOddKeys ==
    Callback(<<Pair(K_mode, <<"a">>), Pair(K_claimed_id, ClaimedOk), Pair(<<"b">>, <<"x">>),
               Pair(<<"7">>, <<"y">>), Pair(K_mode, <<"b">>), Pair(K_proto, <<"z">>)>>)

CallbackUrlsOk == {UrlPlain, UrlRepeated, UrlOddKeys}

CallbackUrlsBad ==
    { S_auth_steam,
      Callback(<<Pair(K_claimed_id, <<>>)>>),
      Callback(<<Pair(K_claimed_id, ClaimedNoSlash)>>),
      Callback(<<Pair(K_claimed_id, ClaimedSlashFirst)>>),
      Callback(<<Pair(K_claimed_id, ClaimedShort)>>),
      Callback(<<Pair(K_claimed_id, ClaimedLong)>>) }

OtherUrls ==
    { S_root,
      S_root \o <<"?">> \o Pair(<<"a">>, <<"1">>),
      S_favicon,
      S_favicon \o <<"?">> \o Pair(<<"v">>, <<"1">>),
      S_other,
      <<"/","a","u","t","h">> }

Urls == CallbackUrlsOk \cup CallbackUrlsBad \cup OtherUrls

\* The requests of the model: each url by GET, but for one callback that comes by
\* POST only, and "/" and the unknown path by POST as well.
Requests ==
    [method : {"GET"}, url : Urls \ {UrlRepeated}]
        \cup [method : {"POST"}, url : {S_root, S_other, UrlRepeated}]

L_ns == S_ns \o <<"h",":","/","/","n","s">>

L_valid_true == S_is_valid \o S_true

L_valid_false == S_is_valid \o S_false

RECURSIVE Lines(_)
Lines(ls) ==
    IF ls = <<>> THEN <<>> ELSE Head(ls) \o <<LF>> \o Lines(Tail(ls))

\* Response bodies of the provider: the two well-formed ones, one with a repeated
\* key, and one for every way parsing fails.
Bodies ==
    { Lines(<<L_ns, L_valid_true>>),
      Lines(<<L_ns, L_valid_false>>),
      Lines(<<L_ns, L_valid_false, L_valid_true>>),
      Lines(<<L_valid_true>>),
      Lines(<<L_ns, S_is_valid \o <<"T","r","u","e">>>>),
      Lines(<<L_ns, L_valid_true, <<"e","r","r","o","r",":","x">>>>) }

\* HTTP statuses the provider answers with.
ProviderStatuses == {200, 204, 500}

(***************************************************************************)
(* The state of the process.  Request r is the r-th request the server     *)
(* receives; each call of handle has its own i, o and locals.              *)
(***************************************************************************)
VARIABLES
    running,            \* the node process is alive
    config,             \* the config object of main
    pc,                 \* where the call of handle for request r stands
    i,                  \* the incoming message: method and url
    o,                  \* the server response: statusCode, headers, ended
    claimed_steam_id,   \* the local of that name
    sent,               \* the calls of undici.request made for the request
    response,           \* the provider's answer: statusCode and the body read
    parsed,             \* the calls of parse_oid_check_authentication made
    call                \* a call of one of the two parsers on its own, as in the module's self-tests

\* The variables of the server.
server_vars == <<running, config, pc, i, o, claimed_steam_id, sent, response, parsed>>

vars == <<running, config, pc, i, o, claimed_steam_id, sent, response, parsed, call>>

\* No parser is being called on its own.
NoCall == [fn |-> "none"]

NoRequest == [method |-> "", url |-> <<>>]

\* A fresh http.ServerResponse: statusCode is 200 until the handler sets it.
NewResponse == [statusCode |-> 200, headers |-> <<>>, ended |-> FALSE]

NoAnswer == [statusCode |-> 0, body |-> NULL]

ServerInit ==
    /\ running = TRUE
    /\ config = config_init
    /\ pc = [r \in Req |-> "idle"]
    /\ i = [r \in Req |-> NoRequest]
    /\ o = [r \in Req |-> NewResponse]
    /\ claimed_steam_id = [r \in Req |-> NULL]
    /\ sent = [r \in Req |-> <<>>]
    /\ response = [r \in Req |-> NoAnswer]
    /\ parsed = [r \in Req |-> <<>>]

Init ==
    /\ ServerInit
    /\ call = NoCall

(***************************************************************************)
(* handle: the switch (true) over the cases, in their order.               *)
(***************************************************************************)
route(url) ==
    IF url = S_root THEN "redirect"
    ELSE IF js_startsWith(url, S_auth_steam) THEN "callback"
    ELSE IF url = S_favicon THEN "favicon"
    ELSE "default"

\* o.statusCode = n; o.end()
end_with(res, n) == [res EXCEPT !.statusCode = n, !.ended = TRUE]

\* The server calls handle for the next request it receives.
Receives(r, req) ==
    /\ running
    /\ pc[r] = "idle"
    /\ \A q \in Req : q < r => pc[q] # "idle"
    /\ i' = [i EXCEPT ![r] = req]
    /\ UNCHANGED call

\* The promise of handle rejects.  The request listener drops the promise, so the
\* rejection is unhandled: node raises it as an uncaught exception and the process
\* exits.  No response of a request still in flight is ever ended.
UnhandledRejection(r) ==
    /\ pc' = [pc EXCEPT ![r] = "rejected"]
    /\ running' = FALSE

\* case i.url === "/"
redirect_url(cfg) ==
    [href |-> cfg.steam_openid.url.href,
     search |-> searchParams_appendAll(<<>>, Object_entries(cfg.steam_openid.params))]

\* A handler that builds the redirect on config.steam_openid.url itself, not on a copy.
handle_redirect_in_place(r) ==
    \E req \in Requests :
        /\ Receives(r, req)
        /\ route(req.url) = "redirect"
        /\ config' = [config EXCEPT !.steam_openid.url = redirect_url(config)]
        /\ o' = [o EXCEPT ![r] =
                    [statusCode |-> 303,
                     headers |-> Append(@.headers, <<"Location", URL_toString(redirect_url(config))>>),
                     ended |-> TRUE]]
        /\ pc' = [pc EXCEPT ![r] = "done"]
        /\ UNCHANGED <<running, claimed_steam_id, sent, response, parsed>>

handle_redirect(r) ==
    \E req \in Requests :
        /\ Receives(r, req)
        /\ route(req.url) = "redirect"
        /\ o' = [o EXCEPT ![r] =
                    [statusCode |-> 303,
                     headers |-> Append(@.headers, <<"Location", URL_toString(redirect_url(config))>>),
                     ended |-> TRUE]]
        /\ pc' = [pc EXCEPT ![r] = "done"]
        /\ UNCHANGED <<running, config, claimed_steam_id, sent, response, parsed>>

\* The loop that fills params_out from params_in.
RECURSIVE copy_params(_, _)
copy_params(params_out, params_in) ==
    IF params_in = <<>> THEN params_out
    ELSE LET k == Head(params_in)[1]
             v == Head(params_in)[2]
         IN  IF k = K_mode THEN copy_params(params_out, Tail(params_in))
             ELSE copy_params(obj_set(params_out, k, v), Tail(params_in))

build_params_out(params_in) ==
    copy_params(obj_literal(<<>>, << <<K_mode, V_check_authentication>> >>), params_in)

\* url_auth_check_mut, as handed to undici.request.
auth_check_url(cfg, params_in) ==
    [href |-> cfg.steam_openid.url.href,
     search |-> searchParams_appendAll(<<>>, Object_entries(build_params_out(params_in)))]

\* A handler that starts the call to the provider before it extracts the identifier.
handle_callback_request_first(r) ==
    \E req \in Requests :
        /\ Receives(r, req)
        /\ route(req.url) = "callback"
        /\ LET params_in == URL_searchParams(req.url)
               id == parse_oid_claimed_id_steam(searchParams_get(params_in, K_claimed_id))
           IN  /\ sent' = [sent EXCEPT ![r] =
                             Append(@, [method |-> "POST",
                                        url |-> auth_check_url(config, params_in)])]
               /\ IF id.threw
                  THEN /\ UnhandledRejection(r)
                       /\ UNCHANGED claimed_steam_id
                  ELSE /\ claimed_steam_id' = [claimed_steam_id EXCEPT ![r] = id.value]
                       /\ pc' = [pc EXCEPT ![r] = "await_request"]
                       /\ UNCHANGED running
        /\ UNCHANGED <<config, o, response, parsed>>

\* case i.url.startsWith("/auth/steam"), up to the await of undici.request.
handle_callback(r) ==
    \E req \in Requests :
        /\ Receives(r, req)
        /\ route(req.url) = "callback"
        /\ LET params_in == URL_searchParams(req.url)
               id == parse_oid_claimed_id_steam(searchParams_get(params_in, K_claimed_id))
           IN  IF id.threw
               THEN /\ UnhandledRejection(r)
                    /\ UNCHANGED <<claimed_steam_id, sent>>
               ELSE /\ claimed_steam_id' = [claimed_steam_id EXCEPT ![r] = id.value]
                    /\ sent' = [sent EXCEPT ![r] =
                                  Append(@, [method |-> "POST",
                                             url |-> auth_check_url(config, params_in)])]
                    /\ pc' = [pc EXCEPT ![r] = "await_request"]
                    /\ UNCHANGED running
        /\ UNCHANGED <<config, o, response, parsed>>

\* case i.url === "/favicon.ico"
handle_favicon(r) ==
    \E req \in Requests :
        /\ Receives(r, req)
        /\ route(req.url) = "favicon"
        /\ o' = [o EXCEPT ![r] = end_with(@, 204)]
        /\ pc' = [pc EXCEPT ![r] = "done"]
        /\ UNCHANGED <<running, config, claimed_steam_id, sent, response, parsed>>

\* default
handle_default(r) ==
    \E req \in Requests :
        /\ Receives(r, req)
        /\ route(req.url) = "default"
        /\ o' = [o EXCEPT ![r] = end_with(@, 404)]
        /\ pc' = [pc EXCEPT ![r] = "done"]
        /\ UNCHANGED <<running, config, claimed_steam_id, sent, response, parsed>>

(***************************************************************************)
(* handle, callback case, after the await of undici.request.               *)
(***************************************************************************)
\* A status check that lets every status below 400 through.
is_provider_error_only_4xx_5xx(statusCode) == statusCode >= 400

\* A handler without the status check.
is_provider_error_never(statusCode) == FALSE

\* response.statusCode !== 200
is_provider_error(statusCode) == statusCode # 200

\* The two outcomes the wrong way round.
outcome_status_inverted(is_valid) == IF is_valid THEN 401 ELSE 200

\* o.statusCode = is_valid ? 200 : 401
outcome_status(is_valid) == IF is_valid THEN 200 ELSE 401

\* A handler that sends the request once more when the provider's status is not 200.
request_resolves_retries(r) ==
    \E statusCode \in ProviderStatuses :
        /\ running
        /\ pc[r] = "await_request"
        /\ response' = [response EXCEPT ![r].statusCode = statusCode]
        /\ IF is_provider_error(statusCode)
           THEN /\ sent' = [sent EXCEPT ![r] = Append(@, @[1])]
                /\ UNCHANGED pc
           ELSE /\ pc' = [pc EXCEPT ![r] = "await_body"]
                /\ UNCHANGED sent
        /\ UNCHANGED <<running, config, i, o, claimed_steam_id, parsed, call>>

\* undici.request resolves: the provider's status line and headers have arrived.
request_resolves(r) ==
    \E statusCode \in ProviderStatuses :
        /\ running
        /\ pc[r] = "await_request"
        /\ response' = [response EXCEPT ![r].statusCode = statusCode]
        /\ IF is_provider_error(statusCode)
           THEN /\ o' = [o EXCEPT ![r] = end_with(@, 500)]
                /\ pc' = [pc EXCEPT ![r] = "done"]
           ELSE /\ pc' = [pc EXCEPT ![r] = "await_body"]
                /\ UNCHANGED o
        /\ UNCHANGED <<running, config, i, claimed_steam_id, sent, parsed, call>>

\* undici.request rejects: the provider is unreachable, or the headers timeout of
\* the client passes.  Nothing catches the exception at the await.
request_rejects(r) ==
    /\ running
    /\ pc[r] = "await_request"
    /\ UnhandledRejection(r)
    /\ UNCHANGED <<config, i, o, claimed_steam_id, sent, response, parsed, call>>

\* A catch block without its return: the handler goes on with is_valid still false.
status_for_catch_falls_through(result) ==
    IF result.threw THEN outcome_status(FALSE) ELSE outcome_status(result.is_valid)

\* What the handler does with the parser's answer: the try/catch and the lines after.
status_for(result) ==
    IF result.threw THEN 500 ELSE outcome_status(result.is_valid)

\* response.body.arrayBuffer() resolves: the body is parsed and the request answered.
body_resolves(r) ==
    \E body \in Bodies :
        /\ running
        /\ pc[r] = "await_body"
        /\ response' = [response EXCEPT ![r].body = body]
        /\ parsed' = [parsed EXCEPT ![r] = Append(@, parse_oid_check_authentication(body))]
        /\ o' = [o EXCEPT ![r] = end_with(@, status_for(parse_oid_check_authentication(body)))]
        /\ pc' = [pc EXCEPT ![r] = "done"]
        /\ UNCHANGED <<running, config, i, claimed_steam_id, sent, call>>

\* response.body.arrayBuffer() rejects: the connection breaks, or the body timeout
\* of the client passes.  Nothing catches the exception at the await.
body_rejects(r) ==
    /\ running
    /\ pc[r] = "await_body"
    /\ UnhandledRejection(r)
    /\ UNCHANGED <<config, i, o, claimed_steam_id, sent, response, parsed, call>>

Next ==
    \E r \in Req :
        \/ handle_redirect(r)
        \/ handle_callback(r)
        \/ handle_favicon(r)
        \/ handle_default(r)
        \/ request_resolves(r)
        \/ request_rejects(r)
        \/ body_resolves(r)
        \/ body_rejects(r)

Spec == Init /\ [][Next]_vars

\* Every await of a running handler ends: the provider answers, or the client's
\* connect, headers or body timeout rejects the promise.
Fairness ==
    \A r \in Req :
        /\ WF_vars(request_resolves(r) \/ request_rejects(r))
        /\ WF_vars(body_resolves(r) \/ body_rejects(r))

FairSpec == Spec /\ Fairness

(***************************************************************************)
(* What the properties speak of.                                           *)
(***************************************************************************)
Received(r) == pc[r] # "idle"

\* The request's path: its url up to the query.
PathOf(r) == URL_pathname(i[r].url)

OnCallbackPath(r) == Received(r) /\ js_startsWith(PathOf(r), S_auth_steam)

\* The response of request r was ended with status n.
Answered(r, n) == o[r].ended /\ o[r].statusCode = n

\* The openid.claimed_id of the request's query, or null.
ClaimedIdOf(r) == searchParams_get(URL_searchParams(i[r].url), K_claimed_id)

\* The provider's answer has been read whole: status 200 and a body.
BodyRead(r) == response[r].statusCode = 200 /\ response[r].body # NULL

ProviderSaid(r, valid) ==
    /\ BodyRead(r)
    /\ LET answer == parse_oid_check_authentication(response[r].body)
       IN  ~answer.threw /\ answer.is_valid = valid

Suspended(r) == pc[r] \in {"await_request", "await_body"}

NotMode(p) == p[1] # K_mode

(***************************************************************************)
(* C1: on the callback path the response is ended with status 200 if and   *)
(* only if the provider answered the re-validation call with status 200    *)
(* and a body that parses with is_valid true; in no state has a callback   *)
(* request been answered 200 without that answer.                          *)
(***************************************************************************)
C1_Status200IffProviderValid ==
    \A r \in Req : OnCallbackPath(r) => (Answered(r, 200) <=> ProviderSaid(r, TRUE))

C1_Witness ==
    \E r \in Req : OnCallbackPath(r) /\ Answered(r, 200) /\ ProviderSaid(r, TRUE)

(***************************************************************************)
(* C2: a callback request whose openid.claimed_id fails extraction (absent,*)
(* no '/', last '/' at index 0, or a segment not 17 long) is answered with *)
(* status 500.                                                             *)
(***************************************************************************)
C2_ExtractionFailureAnswered500 ==
    \A r \in Req :
        (OnCallbackPath(r) /\ parse_oid_claimed_id_steam(ClaimedIdOf(r)).threw)
            => Answered(r, 500)

(***************************************************************************)
(* C3: no error raised while handling a request is fatal to the process:   *)
(* the process is running in every reachable state, so every other request *)
(* is still served.                                                        *)
(***************************************************************************)
C3_NoErrorIsFatal ==
    running /\ \A r \in Req : pc[r] # "rejected"

(***************************************************************************)
(* C4: a callback request whose re-validation call fails at the transport  *)
(* level (provider unreachable, timeout) is answered with status 500.      *)
(***************************************************************************)
TransportFailed(r) ==
    pc[r] = "rejected" /\ sent[r] # <<>> /\ response[r].statusCode = 0

C4_TransportFailureAnswered500 ==
    \A r \in Req : TransportFailed(r) => Answered(r, 500)

(***************************************************************************)
(* C5: the re-validation request holds exactly one openid.mode field, of   *)
(* value check_authentication, and every other received key/value pair,    *)
(* repeated keys included, unchanged and in the order received.            *)
(***************************************************************************)
C5_ForwardsEveryFieldInOrder ==
    \A r \in Req : \A n \in 1..Len(sent[r]) :
        LET out == sent[r][n].url.search
        IN  /\ Cardinality({m \in 1..Len(out) : out[m][1] = K_mode}) = 1
            /\ \A m \in 1..Len(out) : out[m][1] = K_mode => out[m][2] = V_check_authentication
            /\ SelectSeq(out, NotMode) = SelectSeq(URL_searchParams(i[r].url), NotMode)

(***************************************************************************)
(* C6: when the provider's answer has a status other than 200, the         *)
(* callback request is answered with status 500 and the Response Parser is *)
(* not called for it: no body is read or parsed.                           *)
(***************************************************************************)
ProviderNot200(r) == response[r].statusCode \notin {0, 200}

C6_Not200Answered500Unparsed ==
    \A r \in Req :
        ProviderNot200(r) => Answered(r, 500) /\ parsed[r] = <<>> /\ response[r].body = NULL

C6_Witness ==
    \E r \in Req : response[r].statusCode = 204 /\ Answered(r, 500) /\ parsed[r] = <<>>

(***************************************************************************)
(* C7: when the provider answers 200 and the Response Parser fails on the  *)
(* body, the callback request is answered with status 500.                 *)
(***************************************************************************)
ParseFailed(r) ==
    BodyRead(r) /\ parse_oid_check_authentication(response[r].body).threw

C7_ParseFailureAnswered500 ==
    \A r \in Req : ParseFailed(r) => Answered(r, 500)

C7_Witness ==
    \E r \in Req : ParseFailed(r) /\ parsed[r] = <<Thrown>> /\ Answered(r, 500)

(***************************************************************************)
(* C8: a callback request is answered with status 401 if and only if the   *)
(* provider answered 200 with a well-formed body whose is_valid is false.  *)
(***************************************************************************)
C8_Status401IffProviderInvalid ==
    \A r \in Req : OnCallbackPath(r) => (Answered(r, 401) <=> ProviderSaid(r, FALSE))

C8_Witness ==
    \E r \in Req : OnCallbackPath(r) /\ Answered(r, 401) /\ ProviderSaid(r, FALSE)

(***************************************************************************)
(* C9: a request's outcome depends only on its own parameters and the      *)
(* answer to its own call: while it is suspended awaiting the provider the *)
(* process serves it and the other requests, whatever those are.           *)
(***************************************************************************)
C9_SuspendedRequestIsServed ==
    \A r \in Req : Suspended(r) => running

(***************************************************************************)
(* C10: dispatch goes by the request's path, whatever the method: '/' is   *)
(* answered 303, a path starting with '/auth/steam' gets callback          *)
(* verification, '/favicon.ico' is answered 204, and every other request   *)
(* is answered 404.                                                        *)
(***************************************************************************)
VerificationStarted(r) ==
    \/ pc[r] = "rejected"
    \/ sent[r] # <<>>

C10_DispatchByPath ==
    \A r \in Req : Received(r) =>
        IF PathOf(r) = S_root THEN Answered(r, 303)
        ELSE IF js_startsWith(PathOf(r), S_auth_steam) THEN VerificationStarted(r)
        ELSE IF PathOf(r) = S_favicon THEN Answered(r, 204)
        ELSE Answered(r, 404)

(***************************************************************************)
(* C11: a request to '/' is answered 303 with one header, Location: the    *)
(* provider URL followed by the fixed parameters in the order of the       *)
(* mapping, form-urlencoded; its query holds openid.mode once, with value  *)
(* checkid_setup, and the configured openid.return_to and openid.realm.    *)
(***************************************************************************)
\* https://steamcommunity.com/openid/login?openid.mode=checkid_setup&openid.ns=...
ExpectedLocation ==
    <<"h","t","t","p","s",":","/","/","s","t","e","a","m","c","o","m","m","u","n","i","t","y",
      ".","c","o","m","/","o","p","e","n","i","d","/","l","o","g","i","n","?","o","p","e","n",
      "i","d",".","m","o","d","e","=","c","h","e","c","k","i","d","_","s","e","t","u","p","&",
      "o","p","e","n","i","d",".","n","s","=","h","t","t","p","%","3","A","%","2","F","%","2",
      "F","s","p","e","c","s",".","o","p","e","n","i","d",".","n","e","t","%","2","F","a","u",
      "t","h","%","2","F","2",".","0","&","o","p","e","n","i","d",".","i","d","e","n","t","i",
      "t","y","=","h","t","t","p","%","3","A","%","2","F","%","2","F","s","p","e","c","s",".",
      "o","p","e","n","i","d",".","n","e","t","%","2","F","a","u","t","h","%","2","F","2",".",
      "0","%","2","F","i","d","e","n","t","i","f","i","e","r","_","s","e","l","e","c","t","&",
      "o","p","e","n","i","d",".","c","l","a","i","m","e","d","_","i","d","=","h","t","t","p",
      "%","3","A","%","2","F","%","2","F","s","p","e","c","s",".","o","p","e","n","i","d",".",
      "n","e","t","%","2","F","a","u","t","h","%","2","F","2",".","0","%","2","F","i","d","e",
      "n","t","i","f","i","e","r","_","s","e","l","e","c","t","&","o","p","e","n","i","d",".",
      "r","e","t","u","r","n","_","t","o","=","h","t","t","p","%","3","A","%","2","F","%","2",
      "F","l","o","c","a","l","h","o","s","t","%","3","A","8","0","8","0","%","2","F","a","u",
      "t","h","%","2","F","s","t","e","a","m","&","o","p","e","n","i","d",".","r","e","a","l",
      "m","=","h","t","t","p","%","3","A","%","2","F","%","2","F","l","o","c","a","l","h","o",
      "s","t","%","3","A","8","0","8","0">>

LocationOf(r) == o[r].headers[1][2]

ValuesOf(query, name) ==
    {query[n][2] : n \in {m \in 1..Len(query) : query[m][1] = name}}

TimesIn(query, name) == Cardinality({m \in 1..Len(query) : query[m][1] = name})

ToRoot(r) == Received(r) /\ i[r].url = S_root

C11_RootRedirectsToProvider ==
    \A r \in Req : ToRoot(r) =>
        /\ Answered(r, 303)
        /\ Len(o[r].headers) = 1
        /\ o[r].headers[1][1] = "Location"
        /\ LocationOf(r) = ExpectedLocation
        /\ js_startsWith(LocationOf(r), S_provider_url \o <<"?">>)
        /\ LET query == URL_searchParams(LocationOf(r))
           IN  /\ TimesIn(query, K_mode) = 1
               /\ ValuesOf(query, K_mode) = {V_checkid_setup}
               /\ ValuesOf(query, K_return_to) = {urlencode(V_return_to)}
               /\ ValuesOf(query, K_realm) = {urlencode(V_realm)}

C11_Witness ==
    \E r \in Req : ToRoot(r) /\ i[r].method = "POST" /\ Answered(r, 303)
                      /\ LocationOf(r) = ExpectedLocation

(***************************************************************************)
(* The two parsers called on their own, as the module's self-tests call    *)
(* them: one call per behaviour, of an argument drawn from the texts and   *)
(* the claimed identities below.  `given` keeps the pieces the argument    *)
(* was put together from.                                                  *)
(***************************************************************************)
MaxLines == 3

MaxSegmentLen == 18

L_ns_other == S_ns \o <<"u">>

L_valid_capital == S_is_valid \o <<"T","r","u","e">>

L_unknown == <<"e","r","r","o","r",":","x">>

\* The lines of a response text; the empty line stands for "\n\n" and a final "\n".
LinePool == {L_ns, L_ns_other, L_valid_true, L_valid_false, L_valid_capital, L_unknown, <<>>}

LineSeqs == UNION {[1..n -> LinePool] : n \in 0..MaxLines}

RECURSIVE JoinLines(_)
JoinLines(ls) ==
    IF ls = <<>> THEN <<>>
    ELSE IF Len(ls) = 1 THEN ls[1]
    ELSE ls[1] \o <<LF>> \o JoinLines(Tail(ls))

Prefixes == {<<>>, <<"/">>, <<"p","/">>, <<"a","/","b","/">>, <<"p">>, <<"/","/">>}

Segments == {Repeat(c, n) : c \in {"0", "x"}, n \in 0..MaxSegmentLen}

ParserCalls ==
    {[fn |-> "parse_oid_check_authentication", given |-> ls, arg |-> JoinLines(ls),
      returned |-> FALSE, ret |-> Thrown] : ls \in LineSeqs}

ExtractorCalls ==
    {[fn |-> "parse_oid_claimed_id_steam", given |-> <<pre, seg>>, arg |-> pre \o seg,
      returned |-> FALSE, ret |-> Thrown] : pre \in Prefixes, seg \in Segments}
        \cup {[fn |-> "parse_oid_claimed_id_steam", given |-> <<NULL, <<>>>>, arg |-> NULL,
               returned |-> FALSE, ret |-> Thrown]}

CallsInit ==
    /\ ServerInit
    /\ call \in ParserCalls \cup ExtractorCalls

returns_check_authentication ==
    /\ call.fn = "parse_oid_check_authentication"
    /\ ~call.returned
    /\ call' = [call EXCEPT !.returned = TRUE, !.ret = parse_oid_check_authentication(call.arg)]
    /\ UNCHANGED server_vars

returns_claimed_id_steam ==
    /\ call.fn = "parse_oid_claimed_id_steam"
    /\ ~call.returned
    /\ call' = [call EXCEPT !.returned = TRUE, !.ret = parse_oid_claimed_id_steam(call.arg)]
    /\ UNCHANGED server_vars

CallsNext ==
    \/ returns_check_authentication
    \/ returns_claimed_id_steam

CallsSpec == CallsInit /\ [][CallsNext]_vars

ParserReturned == call.fn = "parse_oid_check_authentication" /\ call.returned

ExtractorReturned == call.fn = "parse_oid_claimed_id_steam" /\ call.returned

\* How often a line of the set occurs among the lines.
Occurrences(ls, set) == Cardinality({n \in 1..Len(ls) : ls[n] \in set})

NsLines == {L_ns, L_ns_other}

ValidLines == {L_valid_true, L_valid_false}

\* The text after the prefix of a line.
AfterPrefix(line, prefix) == SubSeq(line, Len(prefix) + 1, Len(line))

TheLine(ls, set) == ls[CHOOSE n \in 1..Len(ls) : ls[n] \in set]

RECURSIVE Reverse(_)
Reverse(ls) == IF ls = <<>> THEN <<>> ELSE Append(Reverse(Tail(ls)), Head(ls))

(***************************************************************************)
(* C12: for a text made of one ns: line, one is_valid: line of value true  *)
(* or false, and empty lines, in any order, the Response Parser returns    *)
(* ns as all that follows "ns:" (further ':' included) and is_valid as the *)
(* boolean; the text with its lines in the reverse order gives the same.   *)
(***************************************************************************)
OneOfEach(ls) ==
    /\ Occurrences(ls, NsLines) = 1
    /\ Occurrences(ls, ValidLines) = 1
    /\ Occurrences(ls, NsLines \cup ValidLines \cup {<<>>}) = Len(ls)

C12_ParsesOneOfEachInAnyOrder ==
    (ParserReturned /\ OneOfEach(call.given)) =>
        /\ call.ret = [threw |-> FALSE,
                       ns |-> AfterPrefix(TheLine(call.given, NsLines), S_ns),
                       is_valid |-> (TheLine(call.given, ValidLines) = L_valid_true)]
        /\ call.ret = parse_oid_check_authentication(JoinLines(Reverse(call.given)))

\* is_valid before ns, an empty line between them, and a ':' in the value of ns.
C12_Witness ==
    /\ ParserReturned
    /\ call.given = <<L_valid_false, <<>>, L_ns>>
    /\ call.ret = [threw |-> FALSE, ns |-> <<"h",":","/","/","n","s">>, is_valid |-> FALSE]

(***************************************************************************)
(* C13: the Response Parser throws on the empty text, on a text with a     *)
(* non-empty line whose key is neither ns nor is_valid, on an is_valid     *)
(* value other than true or false, and on a text that lacks one of the two *)
(* keys; what it returns otherwise holds both ns and is_valid.             *)
(***************************************************************************)
MustFail(ls) ==
    \/ Occurrences(ls, {<<>>}) = Len(ls)
    \/ Occurrences(ls, {L_unknown}) > 0
    \/ Occurrences(ls, {L_valid_capital}) > 0
    \/ Occurrences(ls, NsLines) = 0
    \/ Occurrences(ls, ValidLines) = 0

C13_ParserFailsWhole ==
    ParserReturned =>
        /\ MustFail(call.given) => call.ret = Thrown
        /\ call.ret # Thrown =>
              /\ DOMAIN call.ret = {"threw", "ns", "is_valid"}
              /\ ~call.ret.threw
              /\ call.ret.is_valid \in BOOLEAN

\* A text with ns alone has been refused.
C13_Witness ==
    ParserReturned /\ call.given = <<L_ns, <<>>>> /\ call.ret = Thrown

(***************************************************************************)
(* C14: the Identity Extractor returns a value if and only if the last '/' *)
(* of its input is at an index greater than 0 and is followed by exactly   *)
(* 17 characters, and the value is those characters, digits or not; it     *)
(* throws on every other input.                                            *)
(***************************************************************************)
\* s[k] is the last '/' of s, k counted from 1.
LastSlashAt(s, k) == s[k] = "/" /\ \A j \in (k + 1)..Len(s) : s[j] # "/"

Extractable(s) ==
    /\ s # NULL
    /\ \E k \in 2..Len(s) : LastSlashAt(s, k) /\ Len(s) - k = SteamIdLength

C14_ExtractsIffWellFormed ==
    ExtractorReturned =>
        IF Extractable(call.arg)
        THEN call.ret = [threw |-> FALSE,
                         value |-> SubSeq(call.arg, Len(call.arg) - SteamIdLength + 1, Len(call.arg))]
        ELSE call.ret = Thrown

\* Seventeen letters after "p/" have been returned as they are.
C14_Witness ==
    /\ ExtractorReturned
    /\ call.given = <<<<"p","/">>, Repeat("x", SteamIdLength)>>
    /\ call.ret = [threw |-> FALSE, value |-> Repeat("x", SteamIdLength)]

(***************************************************************************)
(* C15: a re-validation request has been sent for a callback request only  *)
(* if extraction succeeded on its claimed_id, and then the identifier is   *)
(* already held; for a request whose claimed_id fails extraction none is   *)
(* ever sent.                                                              *)
(***************************************************************************)
C15_ExtractionBeforeCall ==
    \A r \in Req :
        /\ sent[r] # <<>> =>
              /\ Extractable(ClaimedIdOf(r))
              /\ claimed_steam_id[r] # NULL
              /\ Len(claimed_steam_id[r]) = SteamIdLength
        /\ (OnCallbackPath(r) /\ ~Extractable(ClaimedIdOf(r))) => sent[r] = <<>>

\* One request was refused at extraction, another has its call under way.
C15_Witness ==
    \E r, q \in Req :
        /\ OnCallbackPath(r) /\ ~Extractable(ClaimedIdOf(r)) /\ pc[r] = "rejected" /\ sent[r] = <<>>
        /\ Len(sent[q]) = 1 /\ Extractable(ClaimedIdOf(q))

(***************************************************************************)
(* C16: every callback request is answered in the end: its response is     *)
(* ended, with status 200, 401 or 500, also when the provider never        *)
(* answers.                                                                *)
(***************************************************************************)
CallbackAnswered(r) == o[r].ended /\ o[r].statusCode \in {200, 401, 500}

C16_EveryCallbackAnswered ==
    \A r \in Req : OnCallbackPath(r) ~> CallbackAnswered(r)

(***************************************************************************)
(* C17: a callback request has at most one re-validation call made for it, *)
(* also after the provider failed or rejected it, and a request on another *)
(* route has none.                                                         *)
(***************************************************************************)
C17_AtMostOneCall ==
    \A r \in Req :
        /\ Len(sent[r]) <= 1
        /\ (Received(r) /\ ~js_startsWith(PathOf(r), S_auth_steam)) => sent[r] = <<>>

\* One request was answered 500 after its one call failed, and one was answered
\* off the callback path, with no call.
C17_Witness ==
    \E r, q \in Req :
        /\ response[r].statusCode = 500 /\ Answered(r, 500) /\ Len(sent[r]) = 1
        /\ Received(q) /\ PathOf(q) = S_favicon /\ Answered(q, 204) /\ sent[q] = <<>>

(***************************************************************************)
(* C18: the configuration is the same after any sequence of requests as at *)
(* startup: the provider URL, query included, and the fixed parameters.    *)
(***************************************************************************)
C18_ConfigUnchanged ==
    /\ config = config_init
    /\ config.steam_openid.url = [href |-> S_provider_url, search |-> <<>>]
    /\ Len(config.steam_openid.params) = 6

\* A redirect and a re-validation URL have both been built.
C18_Witness ==
    /\ config = config_init
    /\ \E r, q \in Req : ToRoot(r) /\ Answered(r, 303) /\ Len(sent[q]) = 1

(***************************************************************************)
(* C19: a provider's body whose lines are all ns: lines and is_valid:      *)
(* lines of value true or false, at least one of each and one key more     *)
(* than once, is parsed without failure to the values of the last          *)
(* occurrence of each key, and the request is answered by the last         *)
(* is_valid: 200 when it is true, 401 when it is false.                    *)
(***************************************************************************)
BodyLines(r) == js_filterTruthy(js_split(response[r].body, LF))

RepeatsKey(ls) ==
    /\ Occurrences(ls, NsLines) >= 1
    /\ Occurrences(ls, ValidLines) >= 1
    /\ Occurrences(ls, NsLines \cup ValidLines) = Len(ls)
    /\ Len(ls) > 2

LastLine(ls, set) ==
    ls[CHOOSE n \in 1..Len(ls) : ls[n] \in set /\ \A m \in (n + 1)..Len(ls) : ls[m] \notin set]

C19_LastOccurrenceWins ==
    \A r \in Req :
        (BodyRead(r) /\ RepeatsKey(BodyLines(r))) =>
            LET last_valid == LastLine(BodyLines(r), ValidLines) = L_valid_true
            IN  /\ parsed[r] = << [threw |-> FALSE,
                                   ns |-> AfterPrefix(LastLine(BodyLines(r), NsLines), S_ns),
                                   is_valid |-> last_valid] >>
                /\ Answered(r, IF last_valid THEN 200 ELSE 401)

\* is_valid:false, then is_valid:true, after an ns line: parsed as true, answered 200.
C19_Witness ==
    \E r \in Req :
        /\ BodyRead(r)
        /\ response[r].body = Lines(<<L_ns, L_valid_false, L_valid_true>>)
        /\ parsed[r] = << [threw |-> FALSE, ns |-> AfterPrefix(L_ns, S_ns), is_valid |-> TRUE] >>
        /\ Answered(r, 200)

=============================================================================
